---------------------------- MODULE Spec2Model ----------------------------
(***************************************************************************)
(* The /query request pipeline of app.py: validate the JSON body, open a   *)
(* database connection, bind the caller's emailid as session context,      *)
(* introspect the schema, ask the model service for SQL, sanitize it,      *)
(* execute it on the same cursor and answer with JSON.                     *)
(*                                                                         *)
(* A request's position in query() is pc[r]; every statement of query()    *)
(* that can raise lies inside one try block whose handler answers 500.     *)
(* The database, the credential service and the model service are opaque:  *)
(* their answers are drawn from small sets.                                *)
(***************************************************************************)
EXTENDS Integers, Sequences, FiniteSets, TLC

\* ------------------------------------------------------------- bounds
NumRequests == 2      \* requests handled concurrently (SpecConcurrent)
MaxPieces   == 3      \* pieces concatenated into one model completion
MaxRows     == 1      \* rows of a result set

Requests == 1 .. NumRequests
ConnIds  == 1 .. NumRequests

\* ------------------------------------------------------ Python values
PyNone  == [t |-> "none"]
Unset   == [t |-> "unset"]
PyList  == [t |-> "list"]
PyStr(s)  == [t |-> "str", v |-> s]
PyDict(d) == [t |-> "dict", v |-> d]
PyText(s) == [t |-> "text", v |-> s]

\* Python truthiness of a value read from the body: None and "" are falsy.
Truthy(x) == ~(x = PyNone \/ x = PyStr(""))

\* dict.get(key): the value, or None when the key is absent.
DictGet(d, k) == IF k \in DOMAIN d THEN d[k] ELSE PyNone

\* ------------------------------------------------------------ strings
\* A string is a sequence of one-character strings.
Whitespace == {" ", "\n"}

StartsWith(s, p) == Len(s) >= Len(p) /\ SubSeq(s, 1, Len(p)) = p

\* str.replace(p, ""): occurrences are found left to right, without overlap.
RECURSIVE Remove(_, _)
Remove(s, p) ==
    IF Len(s) < Len(p) THEN s
    ELSE IF StartsWith(s, p) THEN Remove(SubSeq(s, Len(p) + 1, Len(s)), p)
    ELSE <<Head(s)>> \o Remove(Tail(s), p)

RECURSIVE LStrip(_)
LStrip(s) == IF s # <<>> /\ Head(s) \in Whitespace THEN LStrip(Tail(s)) ELSE s

RECURSIVE RStrip(_)
RStrip(s) ==
    IF s # <<>> /\ s[Len(s)] \in Whitespace THEN RStrip(SubSeq(s, 1, Len(s) - 1)) ELSE s

\* str.strip()
Strip(s) == RStrip(LStrip(s))

\* The backtick character (the lexer admits none inside a string literal).
BT == "BACKTICK"

FenceSql == <<BT, BT, BT, "s", "q", "l">>
Fence    == <<BT, BT, BT>>
Tick     == <<BT>>

\* A sanitizer that forgets the single backticks.
SanitizeKeepingTicks(content) == Strip(Remove(Remove(content, FenceSql), Fence))

\* generate_sql's return expression.
Sanitize(content) ==
    Strip(Remove(Remove(Remove(content, FenceSql), Fence), Tick))

Contains(s, p) == \E i \in 1 .. Len(s) : StartsWith(SubSeq(s, i, Len(s)), p)

\* ------------------------------------------------------------- inputs
Emails    == {"alice@example.com", "bob@example.com"}
Questions == {"Total sales for year 2024"}
Keys      == {"question", "emailid"}

FieldValues(k) ==
    IF k = "question" THEN {PyStr("")} \cup {PyStr(q) : q \in Questions}
    ELSE {PyStr("")} \cup {PyStr(e) : e \in Emails}

\* JSON objects carrying any subset of the two keys.
JsonObjects ==
    UNION {{d \in [S -> UNION {FieldValues(k) : k \in Keys}] :
                \A k \in S : d[k] \in FieldValues(k)} : S \in SUBSET Keys}

\* A request body: not JSON at all, or a JSON value (null, a list, an object).
Malformed == [kind |-> "malformed"]
Json(v)   == [kind |-> "json", value |-> v]
Bodies    == {Malformed, Json(PyNone), Json(PyList)} \cup {Json(PyDict(d)) : d \in JsonObjects}

ValidBodies ==
    {b \in Bodies : /\ b.kind = "json"
                    /\ b.value.t = "dict"
                    /\ Truthy(DictGet(b.value.v, "question"))
                    /\ Truthy(DictGet(b.value.v, "emailid"))}

\* What the model service may answer: pieces of fencing, whitespace and text.
Pieces == {FenceSql, Fence, Tick, <<" ">>, <<"\n">>, <<"S">>}

RECURSIVE Concats(_)
Concats(n) ==
    IF n = 0 THEN {<<>>}
    ELSE LET shorter == Concats(n - 1)
         IN  shorter \cup {s \o p : s \in shorter, p \in Pieces}

Completions == Concats(MaxPieces)

\* generate_sql's call of the model service: it raises, or the first choice's
\* message content is None or a string.
GenRaises == [kind |-> "raises"]
GenContent(c) == [kind |-> "content", content |-> c]
GenOutcomes == {GenRaises, GenContent(PyNone)} \cup {GenContent(PyText(s)) : s \in Completions}
GenOutcomesNarrow == {GenRaises, GenContent(PyText(<<BT, "S", BT>>))}

\* The database's answer to the generated statement: rejected, executed without
\* a result set (cursor.description is None), or a result set.
Columns == <<"total">>
Cells   == {"int", "bytes"}
Rows    == [1 .. Len(Columns) -> Cells]

RECURSIVE RowSeqs(_)
RowSeqs(n) ==
    IF n = 0 THEN {<<>>}
    ELSE LET shorter == RowSeqs(n - 1)
         IN  shorter \cup {Append(s, row) : s \in shorter, row \in Rows}

DbRejects     == [kind |-> "rejected"]
DbNoResultSet == [kind |-> "no_result_set"]
DbResultSet(rows) == [kind |-> "result_set", cols |-> Columns, rows |-> rows]
DbOutcomes == {DbRejects, DbNoResultSet} \cup {DbResultSet(rows) : rows \in RowSeqs(MaxRows)}
DbOutcomesNarrow == {DbRejects, DbResultSet(<<>>)}

\* The catalog the schema introspection reads: one query for the base tables,
\* one per table for its columns.
Tables == <<"dbo.items", "dbo.itemledgerentries">>
TableColumns(t) ==
    IF t = "dbo.items"
    THEN <<[name |-> "number", type |-> "varchar"], [name |-> "displayName", type |-> "varchar"]>>
    ELSE <<[name |-> "itemNumber", type |-> "varchar"], [name |-> "salesAmountActual", type |-> "decimal"]>>

\* -------------------------------------------------------------- state
VARIABLES
    pc,          \* where each request stands in query()
    body,        \* the request body
    question,    \* query()'s local question
    email,       \* query()'s local email
    conn,        \* query()'s local conn: a connection id, 0 while unassigned
    cursor,      \* query()'s local cursor: the connection it belongs to, 0 while unassigned
    schema,      \* query()'s local schema
    sql,         \* query()'s local sql
    result,      \* query()'s local result
    response,    \* the HTTP response: status 0 while none is produced
    connOpen,    \* the database connections that are open
    opened,      \* the connections pyodbc.connect has returned so far
    sessionCtx,  \* per connection: SESSION_CONTEXT(N'emailid')
    dbLog,       \* per connection: the statements sent on it, in order
    raw,         \* history: the content the model service returned
    trace,       \* history: the positions the request has been in
    calls        \* history: how often each step was started

locals  == <<body, question, email, conn, cursor, schema, sql, result>>
db      == <<connOpen, opened, sessionCtx, dbLog>>
vars    == <<pc, body, question, email, conn, cursor, schema, sql, result, response,
             connOpen, opened, sessionCtx, dbLog, raw, trace, calls>>

NoBody     == [kind |-> "none"]
NoResponse == [status |-> 0, body |-> [k \in {} |-> 0]]
NoCalls    == [connect |-> 0, bind |-> 0, introspect |-> 0, generate |-> 0, execute |-> 0]

Init ==
    /\ pc = [r \in Requests |-> "Idle"]
    /\ body = [r \in Requests |-> NoBody]
    /\ question = [r \in Requests |-> Unset]
    /\ email = [r \in Requests |-> Unset]
    /\ conn = [r \in Requests |-> 0]
    /\ cursor = [r \in Requests |-> 0]
    /\ schema = [r \in Requests |-> Unset]
    /\ sql = [r \in Requests |-> Unset]
    /\ result = [r \in Requests |-> Unset]
    /\ response = [r \in Requests |-> NoResponse]
    /\ connOpen = {}
    /\ opened = {}
    /\ sessionCtx = [c \in ConnIds |-> PyNone]
    /\ dbLog = [c \in ConnIds |-> <<>>]
    /\ raw = [r \in Requests |-> Unset]
    /\ trace = [r \in Requests |-> <<>>]
    /\ calls = [r \in Requests |-> NoCalls]

\* ------------------------------------------------------- control flow
\* The order of query()'s statements, with the schema introspection left out.
SuccWithoutIntrospection(s) ==
    CASE s = "Received"           -> "Validated"
      [] s = "Validated"          -> "Connected"
      [] s = "Connected"          -> "ContextBound"
      [] s = "ContextBound"       -> "SQLGenerated"
      [] s = "SQLGenerated"       -> "Executed"
      [] s = "Executed"           -> "Responded"

\* The order of query()'s statements: the position after a step that succeeded.
Succ(s) ==
    CASE s = "Received"           -> "Validated"
      [] s = "Validated"          -> "Connected"
      [] s = "Connected"          -> "ContextBound"
      [] s = "ContextBound"       -> "SchemaIntrospected"
      [] s = "SchemaIntrospected" -> "SQLGenerated"
      [] s = "SQLGenerated"       -> "Executed"
      [] s = "Executed"           -> "Responded"

Goto(r, s) ==
    /\ pc' = [pc EXCEPT ![r] = s]
    /\ trace' = [trace EXCEPT ![r] = Append(@, s)]

Advance(r) == Goto(r, Succ(pc[r]))

Started(r, step) == calls' = [calls EXCEPT ![r][step] = @ + 1]

\* query() never closes conn. When query() returns, its locals are dropped and
\* the interpreter may or may not have finalized the connection object by the
\* time the response is out.
Returns(r) == connOpen' \in {connOpen, connOpen \ {conn[r]}}

\* An error body that also carries the locals computed so far.
ErrorBodyWithPartials(r, err) ==
    IF sql[r] = Unset THEN [error |-> err] ELSE [error |-> err, sql |-> sql[r].v]

\* The body of the except handler's response.
ErrorBody(r, err) == [error |-> err]

\* The except handler: any exception raised inside the try block ends the
\* request with a 500 whose body is {"error": str(e)}.
Abort(r, err) ==
    /\ Goto(r, "Failed")
    /\ response' = [response EXCEPT ![r] = [status |-> 500, body |-> ErrorBody(r, err)]]
    /\ Returns(r)

\* ------------------------------------------------------------ actions
\* A request reaches /query.
Receive(r, bodies) ==
    /\ pc[r] = "Idle"
    /\ \E b \in bodies : body' = [body EXCEPT ![r] = b]
    /\ Goto(r, "Received")
    /\ UNCHANGED <<question, email, conn, cursor, schema, sql, result, response, db, raw, calls>>

\* get_json, the two data.get calls and the check of both fields.
Validate(r) ==
    /\ pc[r] = "Received"
    /\ UNCHANGED <<body, conn, cursor, schema, sql, result, opened, sessionCtx, dbLog, raw, calls>>
    /\ IF body[r].kind = "malformed"
       THEN \* get_json raises BadRequest, an Exception: the handler catches it
            /\ Abort(r, "BadRequest")
            /\ UNCHANGED <<question, email>>
       ELSE IF body[r].value.t # "dict"
       THEN \* data.get on None or on a list
            /\ Abort(r, "AttributeError")
            /\ UNCHANGED <<question, email>>
       ELSE LET q == DictGet(body[r].value.v, "question")
                e == DictGet(body[r].value.v, "emailid")
            IN  /\ question' = [question EXCEPT ![r] = q]
                /\ email' = [email EXCEPT ![r] = e]
                /\ IF ~Truthy(q) \/ ~Truthy(e)
                   THEN /\ Goto(r, "Failed")
                        /\ response' = [response EXCEPT ![r] =
                               [status |-> 400,
                                body |-> [error |-> "Both 'question' and 'emailid' are required"]]]
                        /\ Returns(r)
                   ELSE /\ Advance(r)
                        /\ UNCHANGED <<response, connOpen>>

\* One module-level connection handed to every request.
SharedConnection == CHOOSE c \in ConnIds : \A d \in ConnIds : c <= d

\* pyodbc.connect: a connection no request holds yet.
NewConnection ==
    CHOOSE c \in ConnIds \ opened : \A d \in ConnIds \ opened : c <= d

\* conn = get_db_connection(): the credential exchange or the connect call may raise.
Connect(r) ==
    /\ pc[r] = "Validated"
    /\ Started(r, "connect")
    /\ UNCHANGED <<body, question, email, cursor, schema, sql, result, sessionCtx, dbLog, raw>>
    /\ \/ /\ Abort(r, "ConnectionError")
          /\ UNCHANGED <<conn, opened>>
       \/ /\ ConnIds \ opened # {}
          /\ LET c == NewConnection
             IN  /\ conn' = [conn EXCEPT ![r] = c]
                 /\ opened' = opened \cup {c}
                 /\ connOpen' = connOpen \cup {c}
          /\ Advance(r)
          /\ UNCHANGED response

LogEntry(stmt, r, arg, c) == [stmt |-> stmt, by |-> r, arg |-> arg, ctx |-> sessionCtx[c]]

\* The bind step with the sp_set_session_context statement left out.
BindContextOmitted(r) ==
    /\ pc[r] = "Connected"
    /\ Started(r, "bind")
    /\ UNCHANGED <<body, question, email, conn, schema, sql, result, opened, raw>>
    /\ \/ /\ Abort(r, "DatabaseError")
          /\ UNCHANGED <<cursor, sessionCtx, dbLog>>
       \/ /\ cursor' = [cursor EXCEPT ![r] = conn[r]]
          /\ Advance(r)
          /\ UNCHANGED <<response, connOpen, sessionCtx, dbLog>>

\* cursor = conn.cursor(), then EXEC sys.sp_set_session_context @key=N'emailid',
\* @value=email on that cursor.
BindContext(r) ==
    /\ pc[r] = "Connected"
    /\ Started(r, "bind")
    /\ UNCHANGED <<body, question, email, conn, schema, sql, result, opened, raw>>
    /\ \/ \* conn.cursor() raises
          /\ Abort(r, "DatabaseError")
          /\ UNCHANGED <<cursor, sessionCtx, dbLog>>
       \/ \* the statement is rejected
          /\ cursor' = [cursor EXCEPT ![r] = conn[r]]
          /\ Abort(r, "DatabaseError")
          /\ UNCHANGED <<sessionCtx, dbLog>>
       \/ LET c == conn[r]
          IN  /\ cursor' = [cursor EXCEPT ![r] = c]
              /\ dbLog' = [dbLog EXCEPT ![c] =
                     Append(@, LogEntry("set_session_context", r, email[r], c))]
              /\ sessionCtx' = [sessionCtx EXCEPT ![c] = email[r]]
              /\ Advance(r)
              /\ UNCHANGED <<response, connOpen>>

\* get_schema_info's result: "schema.table" -> its columns' names and types.
SchemaInfo == [t \in {Tables[i] : i \in 1 .. Len(Tables)} |-> TableColumns(t)]

\* The statements of the read-back of the session context and of get_schema_info.
IntrospectionStatements(r, c) ==
    <<LogEntry("read_session_context", r, PyNone, c), LogEntry("list_tables", r, PyNone, c)>>
    \o [i \in 1 .. Len(Tables) |-> LogEntry("list_columns", r, PyStr(Tables[i]), c)]

\* SELECT SESSION_CONTEXT(N'emailid'), then schema = get_schema_info(cursor).
\* Any of the statements may raise; those before it have run.
Introspect(r) ==
    /\ pc[r] = "ContextBound"
    /\ Started(r, "introspect")
    /\ UNCHANGED <<body, question, email, conn, cursor, sql, result, opened, sessionCtx, raw>>
    /\ LET c == cursor[r]
           stmts == IntrospectionStatements(r, c)
       IN  \/ /\ dbLog' = [dbLog EXCEPT ![c] = @ \o stmts]
              /\ schema' = [schema EXCEPT ![r] = PyDict(SchemaInfo)]
              /\ Advance(r)
              /\ UNCHANGED <<response, connOpen>>
           \/ \E failing \in 1 .. Len(stmts) :
                 /\ dbLog' = [dbLog EXCEPT ![c] = @ \o SubSeq(stmts, 1, failing - 1)]
                 /\ Abort(r, "DatabaseError")
                 /\ UNCHANGED schema

\* A generate step that calls the model service again when the call raised.
GenerateRetrying(r, outcomes) ==
    /\ pc[r] = "SchemaIntrospected"
    /\ Started(r, "generate")
    /\ UNCHANGED <<body, question, email, conn, cursor, schema, result, opened, sessionCtx, dbLog>>
    /\ \E out \in outcomes :
          IF out.kind = "raises"
          THEN UNCHANGED <<raw, sql, pc, trace, response, connOpen>>
          ELSE /\ raw' = [raw EXCEPT ![r] = out.content]
               /\ IF out.content = PyNone
                  THEN /\ Abort(r, "AttributeError")
                       /\ UNCHANGED sql
                  ELSE /\ sql' = [sql EXCEPT ![r] = PyText(Sanitize(out.content.v))]
                       /\ Advance(r)
                       /\ UNCHANGED <<response, connOpen>>

\* sql = generate_sql(question, schema): one call of the model service; the
\* content of its first choice, sanitized.
Generate(r, outcomes) ==
    /\ pc[r] = "SchemaIntrospected"
    /\ Started(r, "generate")
    /\ UNCHANGED <<body, question, email, conn, cursor, schema, result, opened, sessionCtx, dbLog>>
    /\ \E out \in outcomes :
          IF out.kind = "raises"
          THEN /\ Abort(r, "APIError")
               /\ UNCHANGED <<raw, sql>>
          ELSE /\ raw' = [raw EXCEPT ![r] = out.content]
               /\ IF out.content = PyNone
                  THEN \* None has no replace
                       /\ Abort(r, "AttributeError")
                       /\ UNCHANGED sql
                  ELSE /\ sql' = [sql EXCEPT ![r] = PyText(Sanitize(out.content.v))]
                       /\ Advance(r)
                       /\ UNCHANGED <<response, connOpen>>

\* dict(zip(cols, row)): a later column of the same name overwrites an earlier one.
ZipDict(cols, row) ==
    LET n == IF Len(cols) < Len(row) THEN Len(cols) ELSE Len(row)
    IN  [col \in {cols[i] : i \in 1 .. n} |->
            row[CHOOSE i \in 1 .. n : cols[i] = col /\ \A j \in 1 .. n : cols[j] = col => j <= i]]

UpToNewline(s) ==
    IF \E i \in 1 .. Len(s) : s[i] = "\n"
    THEN SubSeq(s, 1, (CHOOSE i \in 1 .. Len(s) : s[i] = "\n" /\ \A j \in 1 .. i - 1 : s[j] # "\n") - 1)
    ELSE s

\* An executor that sends only the first line of the statement.
ExecuteSqlFirstLine(statement, answer) ==
    [sent |-> UpToNewline(statement)] @@
    IF answer.kind = "rejected" THEN [raised |-> TRUE, error |-> "DatabaseError"]
    ELSE IF answer.kind = "no_result_set" THEN [raised |-> TRUE, error |-> "TypeError"]
    ELSE [raised |-> FALSE,
          value |-> [i \in 1 .. Len(answer.rows) |-> ZipDict(answer.cols, answer.rows[i])]]

\* execute_sql(sql, cursor): what it sends, and what it returns or raises given
\* the database's answer. cursor.description is None when the statement yields no
\* result set, and iterating it raises TypeError.
ExecuteSql(statement, answer) ==
    [sent |-> statement] @@
    IF answer.kind = "rejected" THEN [raised |-> TRUE, error |-> "DatabaseError"]
    ELSE IF answer.kind = "no_result_set" THEN [raised |-> TRUE, error |-> "TypeError"]
    ELSE [raised |-> FALSE,
          value |-> [i \in 1 .. Len(answer.rows) |-> ZipDict(answer.cols, answer.rows[i])]]

\* result = execute_sql(sql, cursor)
Execute(r, answers) ==
    /\ pc[r] = "SQLGenerated"
    /\ Started(r, "execute")
    /\ UNCHANGED <<body, question, email, conn, cursor, schema, sql, opened, sessionCtx, raw>>
    /\ \E answer \in answers :
          LET c == cursor[r]
              run == ExecuteSql(sql[r].v, answer)
          IN  /\ dbLog' = [dbLog EXCEPT ![c] =
                     Append(@, LogEntry("generated", r, PyText(run.sent), c) @@ [answer |-> answer.kind])]
              /\ IF run.raised
                 THEN /\ Abort(r, run.error)
                      /\ UNCHANGED result
                 ELSE /\ result' = [result EXCEPT ![r] = [t |-> "rows", v |-> run.value]]
                      /\ Advance(r)
                      /\ UNCHANGED <<response, connOpen>>

\* jsonify serializes numbers, strings, dates and decimals, and raises TypeError
\* on bytes.
Serializable(rows) ==
    \A i \in 1 .. Len(rows) : \A col \in DOMAIN rows[i] : rows[i][col] # "bytes"

\* return jsonify({"sql": sql, "result": result})
Respond(r) ==
    /\ pc[r] = "Executed"
    /\ UNCHANGED <<locals, opened, sessionCtx, dbLog, raw, calls>>
    /\ IF Serializable(result[r].v)
       THEN /\ Advance(r)
            /\ response' = [response EXCEPT ![r] =
                   [status |-> 200, body |-> [sql |-> sql[r].v, result |-> result[r].v]]]
            /\ Returns(r)
       ELSE Abort(r, "TypeError")

\* ----------------------------------------------------- specifications
\* One request, with every body, completion and database answer.
Next ==
    \E r \in {1} :
        \/ Receive(r, Bodies)
        \/ Validate(r)
        \/ Connect(r)
        \/ BindContext(r)
        \/ Introspect(r)
        \/ Generate(r, GenOutcomes)
        \/ Execute(r, DbOutcomes)
        \/ Respond(r)

Spec == Init /\ [][Next]_vars

\* NumRequests requests whose steps interleave freely, as when the server
\* handles each on its own worker thread.
NextConcurrent ==
    \E r \in Requests :
        \/ Receive(r, ValidBodies)
        \/ Validate(r)
        \/ Connect(r)
        \/ BindContext(r)
        \/ Introspect(r)
        \/ Generate(r, GenOutcomesNarrow)
        \/ Execute(r, DbOutcomesNarrow)
        \/ Respond(r)

SpecConcurrent == Init /\ [][NextConcurrent]_vars

\* ------------------------------------------------------------- claims
Range(s) == {s[i] : i \in 1 .. Len(s)}

Pipeline ==
    <<"Received", "Validated", "Connected", "ContextBound", "SchemaIntrospected",
      "SQLGenerated", "Executed", "Responded">>

Terminal(r) == pc[r] \in {"Responded", "Failed"}

\* The position a request failed from.
FailedFrom(r) == trace[r][Len(trace[r]) - 1]

Fields(r) == DOMAIN response[r].body

\* The statements of kind stmt that request r sent on connection c.
Sent(r, c, stmt) == {k \in 1 .. Len(dbLog[c]) : dbLog[c][k].stmt = stmt /\ dbLog[c][k].by = r}

\* The body lacks a non-empty question or a non-empty emailid.
MissingField(b) == b # NoBody /\ b \notin ValidBodies

\* C1: every request whose question or emailid is missing or empty, a body
\* that is no JSON object included, is answered 400 with an error body, and no
\* connection is acquired, no SQL generated and none executed for it.
C1_MissingFieldAnswered400 ==
    \A r \in Requests :
        (Terminal(r) /\ MissingField(body[r])) =>
            /\ response[r].status = 400
            /\ "error" \in Fields(r)
            /\ calls[r].connect = 0
            /\ calls[r].generate = 0
            /\ calls[r].execute = 0

\* C2: in every request answered 200, sp_set_session_context with the request's
\* emailid ran before the generated SQL, on the same connection and cursor; and
\* no generated SQL ever runs on a session whose context is not its request's
\* emailid.
C2_ContextBoundBeforeGeneratedSql ==
    \A r \in Requests :
        /\ response[r].status = 200 =>
              /\ cursor[r] = conn[r]
              /\ \E i \in Sent(r, cursor[r], "set_session_context") :
                 \E j \in Sent(r, cursor[r], "generated") :
                    /\ i < j
                    /\ dbLog[cursor[r]][i].arg = email[r]
                    /\ dbLog[cursor[r]][j].arg = PyText(response[r].body.sql)
        /\ \A c \in ConnIds : \A j \in Sent(r, c, "generated") :
              /\ dbLog[c][j].ctx = email[r]
              /\ Sent(r, c, "set_session_context") # {}

C2_Witness ==
    \E r \in Requests :
        /\ response[r].status = 200
        /\ Sent(r, cursor[r], "generated") # {}

\* C3: a failure of any step after validation is answered 500 with a body that
\* has an error field; no response has an error field together with sql or
\* result; result appears only in a 200.
C3_FailureIs500WithErrorOnly ==
    \A r \in Requests :
        /\ (pc[r] = "Failed" /\ "Validated" \in Range(trace[r])) =>
              /\ response[r].status = 500
              /\ "error" \in Fields(r)
        /\ "error" \in Fields(r) => Fields(r) \cap {"sql", "result"} = {}
        /\ "result" \in Fields(r) => response[r].status = 200

C3_Witness ==
    \E r \in Requests :
        /\ pc[r] = "Failed"
        /\ FailedFrom(r) = "SQLGenerated"
        /\ sql[r] # Unset
        /\ response[r].status = 500

\* C4: the sql field of a 200 response holds no fence, no backtick and no
\* leading or trailing whitespace, whatever the model service returned.
C4_SqlFieldIsClean ==
    \A r \in Requests :
        response[r].status = 200 =>
            LET s == response[r].body.sql
            IN  /\ ~Contains(s, Fence)
                /\ BT \notin Range(s)
                /\ s # <<>> => (s[1] \notin Whitespace /\ s[Len(s)] \notin Whitespace)

C4_Witness ==
    \E r \in Requests :
        /\ response[r].status = 200
        /\ Contains(raw[r].v, FenceSql)
        /\ raw[r].v[1] \in Whitespace
        /\ response[r].body.sql = <<"S">>

\* A step of query() that ends request r in Failed.
Fails(r) == Next /\ pc'[r] = "Failed"

\* C5: a request's positions are a prefix of Received, Validated, Connected,
\* ContextBound, SchemaIntrospected, SQLGenerated, Executed, Responded, each
\* once and none skipped, or such a prefix short of Responded followed by
\* Failed; nothing follows Responded or Failed; and from every position before
\* Responded a step to Failed is possible (from Received when a field is
\* missing, from Executed when the result cannot be serialized, from the others
\* always).
C5_PipelineOrder ==
    \A r \in Requests :
        /\ pc[r] = IF trace[r] = <<>> THEN "Idle" ELSE trace[r][Len(trace[r])]
        /\ \E k \in 0 .. Len(Pipeline) :
              \/ trace[r] = SubSeq(Pipeline, 1, k)
              \/ /\ k \in 1 .. Len(Pipeline) - 1
                 /\ trace[r] = Append(SubSeq(Pipeline, 1, k), "Failed")
        /\ Terminal(r) => ~ENABLED (Next /\ pc'[r] # pc[r])
        /\ pc[r] \in {"Validated", "Connected", "ContextBound", "SchemaIntrospected", "SQLGenerated"}
              => ENABLED Fails(r)
        /\ (pc[r] = "Received" /\ MissingField(body[r])) => ENABLED Fails(r)
        /\ (pc[r] = "Executed" /\ ~Serializable(result[r].v)) => ENABLED Fails(r)

C5_Witness ==
    \E r \in Requests :
        /\ pc[r] = "Responded"
        /\ trace[r] = Pipeline

\* The position a step is started from.
StartOf(step) ==
    CASE step = "connect"    -> "Validated"
      [] step = "bind"       -> "Connected"
      [] step = "introspect" -> "ContextBound"
      [] step = "generate"   -> "SchemaIntrospected"
      [] step = "execute"    -> "SQLGenerated"

Steps == {"connect", "bind", "introspect", "generate", "execute"}

Index(s) == CHOOSE i \in 1 .. Len(Pipeline) : Pipeline[i] = s

\* C6: a step is started once when the request has passed the position it
\* starts from and never otherwise: none is retried, and after a failure no
\* later step is started; the generated SQL is sent at most once.
C6_FailureAbortsNoRetry ==
    \A r \in Requests :
        /\ \A step \in Steps :
              /\ calls[r][step] <= 1
              /\ calls[r][step] = 1 <=>
                    (StartOf(step) \in Range(trace[r]) /\ pc[r] # StartOf(step))
              /\ (pc[r] = "Failed" /\ Index(StartOf(step)) > Index(FailedFrom(r))) =>
                    calls[r][step] = 0
        /\ \A c \in ConnIds : Cardinality(Sent(r, c, "generated")) <= calls[r].execute

C6_Witness ==
    \E r \in Requests :
        /\ pc[r] = "Failed"
        /\ FailedFrom(r) = "SchemaIntrospected"
        /\ calls[r].generate = 1
        /\ calls[r].execute = 0

\* C7: the statement sent to the database is the sanitized model output,
\* unchanged, and the sql field of a 200 response is the statement that was sent.
C7_SanitizedOutputExecutedVerbatim ==
    \A r \in Requests : \A c \in ConnIds :
        /\ \A j \in Sent(r, c, "generated") :
              /\ raw[r] # Unset /\ raw[r] # PyNone
              /\ dbLog[c][j].arg = PyText(Sanitize(raw[r].v))
        /\ (response[r].status = 200 /\ c = cursor[r]) =>
              /\ Sent(r, c, "generated") # {}
              /\ \A j \in Sent(r, c, "generated") :
                    dbLog[c][j].arg = PyText(response[r].body.sql)

C7_Witness ==
    \E r \in Requests :
        /\ response[r].status = 200
        /\ "\n" \in Range(response[r].body.sql)
        /\ Sent(r, cursor[r], "generated") # {}

\* C8: under any interleaving, no two requests hold the same connection, every
\* statement on a connection comes from the request that holds it, and the
\* generated SQL of a request runs on a session whose context is that request's
\* emailid.
C8_SessionsAreRequestScoped ==
    /\ \A r1, r2 \in Requests :
          (r1 # r2 /\ conn[r1] # 0 /\ conn[r2] # 0) => conn[r1] # conn[r2]
    /\ \A c \in ConnIds : \A k \in 1 .. Len(dbLog[c]) :
          /\ conn[dbLog[c][k].by] = c
          /\ dbLog[c][k].stmt = "generated" => dbLog[c][k].ctx = email[dbLog[c][k].by]

C8_Witness ==
    \E r1, r2 \in Requests :
        /\ email[r1] = PyStr("alice@example.com")
        /\ email[r2] = PyStr("bob@example.com")
        /\ response[r1].status = 200
        /\ response[r2].status = 200
        /\ conn[r1] > conn[r2]

\* C9: when a request has produced its response, no connection it opened is
\* still open.
C9_ConnectionClosedOnExit ==
    \A r \in Requests : Terminal(r) => conn[r] \notin connOpen

\* C10: when the database executes the generated statement without error, also
\* one without a result set or without rows, execute_sql returns a list and the
\* request is answered 200 with sql and result.
C10_AcceptedStatementAnswered200 ==
    \A r \in Requests : \A c \in ConnIds : \A j \in Sent(r, c, "generated") :
        dbLog[c][j].answer # "rejected" =>
            /\ result[r] # Unset
            /\ Terminal(r) =>
                  /\ response[r].status = 200
                  /\ {"sql", "result"} \subseteq Fields(r)

=============================================================================
